---- MODULE Spec2Model ----
(***************************************************************************)
(* Model of onnxmltools/convert/common/_container.py:                      *)
(*   - ModelComponentContainer: the accumulator of the five collections of *)
(*     an ONNX graph (inputs, outputs, initializers, value_info, nodes)    *)
(*     and of the operator (domain, version) pairs in use;                 *)
(*   - KerasModelContainer and SklearnModelContainer: the adapters that    *)
(*     accumulate input/output names of a wrapped model.                   *)
(* Every method is one action; a call that raises is a step that records   *)
(* the exception in err and changes what the code changed before raising.  *)
(***************************************************************************)
EXTENDS Integers, Sequences, FiniteSets, TLC

VARIABLES
    inputs,                         \* self.inputs: list of ValueInfoProto
    outputs,                        \* self.outputs: list of ValueInfoProto
    initializers,                   \* self.initializers: list of TensorProto
    value_info,                     \* self.value_info: list of ValueInfoProto
    nodes,                          \* self.nodes: list of NodeProto
    node_domain_version_pair_sets,  \* set of (op_domain, op_version)
    float_precision,                \* 16 or 32, fixed by __init__
    call,                           \* the last method call and its arguments
    err,                            \* how the last call ended
    accepted,                       \* history: pairs of the add_node calls that returned
    before,                         \* history: the container as the last call found it
    keras_input_raw_names,          \* KerasModelContainer._input_raw_names
    keras_output_raw_names,         \* KerasModelContainer._output_raw_names
    sklearn_inputs,                 \* SklearnModelContainer._inputs
    sklearn_outputs,                \* SklearnModelContainer._outputs
    registered,                     \* history: every registration, in call order
    names_read                      \* the last two reads of a names accessor

container_vars == <<inputs, outputs, initializers, value_info, nodes,
                    node_domain_version_pair_sets, float_precision, call, err, accepted, before>>
adapter_vars == <<keras_input_raw_names, keras_output_raw_names,
                  sklearn_inputs, sklearn_outputs, registered, names_read>>
vars == <<inputs, outputs, initializers, value_info, nodes,
          node_domain_version_pair_sets, float_precision, call, err, accepted, before,
          keras_input_raw_names, keras_output_raw_names,
          sklearn_inputs, sklearn_outputs, registered, names_read>>

\* ----- bounds -------------------------------------------------------------
\* Calls that append are enabled while the five collections hold fewer
\* entries than this.
MaxEntries == 2
\* Adapter registrations are enabled while fewer than this were made.
MaxRegistrations == 4
\* An accessor is read at most this many times in a row.
MaxReads == 2

\* ----- onnx_proto.TensorProto element type tags ---------------------------
TensorProto_FLOAT == 1
TensorProto_INT64 == 7
TensorProto_STRING == 8
TensorProto_FLOAT16 == 10

\* ----- Python values accepted as arguments ----------------------------------
\* An element of a sequence: its Python type and, for a str, its text.
StrElem(s) == [ty |-> "str", s |-> s]
IntElem == [ty |-> "int", s |-> ""]
\* A value accepted as inputs/outputs of add_node.
Str(s) == [kind |-> "str", s |-> s, elems |-> <<>>]
List(es) == [kind |-> "list", s |-> "", elems |-> es]
Tuple(es) == [kind |-> "tuple", s |-> "", elems |-> es]
IntValue == [kind |-> "int", s |-> "", elems |-> <<>>]
NoneValue == [kind |-> "NoneType", s |-> "", elems |-> <<>>]

\* A dimension of a shape: an integer or None.
Dim(n) == [isNone |-> FALSE, n |-> n]
NoneDim == [isNone |-> TRUE, n |-> 0]

\* An attribute (key, value) of **attrs; only "value is None" is observed.
Attr(k, isNone) == [k |-> k, isNone |-> isNone]

\* ----- Variable (the value object the driver hands to the containers) -----
\* raw_name: the name in the wrapped model; onnx_name: the name in the graph;
\* type: the declared type, with its doc string.
Variable(raw_name, onnx_name, type, doc_string) ==
    [raw_name |-> raw_name, onnx_name |-> onnx_name,
     type |-> [kind |-> type, doc_string |-> doc_string]]

Variables ==
    { Variable("a", "X", "FloatTensorType", ""),
      Variable("b", "Y", "Int64TensorType", "label"),
      Variable("x", "Z", "StringTensorType", "") }

\* variable.full_name
full_name(variable) == variable.onnx_name

\* variable.type.to_onnx_type(): the element type of the rendered tensor type.
to_onnx_type(type) ==
    CASE type.kind = "FloatTensorType" -> TensorProto_FLOAT
      [] type.kind = "Int64TensorType" -> TensorProto_INT64
      [] type.kind = "StringTensorType" -> TensorProto_STRING

\* ----- how a call ends ----------------------------------------------------
NoError == [exc |-> "None", what |-> "", detail |-> <<>>]
\* ValueError raised by the container; what: the subject of the message,
\* detail: the values formatted into the message.
ValueError(what, detail) == [exc |-> "ValueError", what |-> what, detail |-> detail]
\* TypeError raised by Python when a non-iterable is iterated.
TypeError(what, detail) == [exc |-> "TypeError", what |-> what, detail |-> detail]

NoCall ==
    [op |-> "", variable |-> Variable("", "", "", ""), name |-> "",
     onnx_type |-> 0, shape |-> <<>>,
     inputs |-> NoneValue, outputs |-> NoneValue, op_domain |-> "",
     op_version |-> 0, attrs |-> <<>>]

\* ----- ModelComponentContainer -------------------------------------------
Size == Len(inputs) + Len(outputs) + Len(initializers) + Len(value_info) + Len(nodes)

\* the five collections, the registry and the precision mode
Snapshot ==
    [inputs |-> inputs, outputs |-> outputs, initializers |-> initializers,
     value_info |-> value_info, nodes |-> nodes,
     node_domain_version_pair_sets |-> node_domain_version_pair_sets,
     float_precision |-> float_precision]

\* __init__(targeted_onnx, float_precision): a precision other than 16 or 32
\* raises and no container exists.
ContainerInit ==
    /\ inputs = <<>>
    /\ outputs = <<>>
    /\ initializers = <<>>
    /\ value_info = <<>>
    /\ nodes = <<>>
    /\ node_domain_version_pair_sets = {}
    /\ float_precision \in {16, 32}
    /\ call = NoCall
    /\ err = NoError
    /\ accepted = {}
    /\ before = Snapshot

\* the mutant: in 16-bit mode every element type is rewritten
_make_value_info_rewrite_all(variable) ==
    [name |-> full_name(variable),
     elem_type |-> IF float_precision = 16 THEN TensorProto_FLOAT16
                   ELSE to_onnx_type(variable.type),
     doc_string |-> IF variable.type.doc_string # "" THEN variable.type.doc_string ELSE ""]

\* _make_value_info: name, type and doc string of the variable, the 32-bit
\* float swapped for the 16-bit one in 16-bit mode
_make_value_info(variable) ==
    [name |-> full_name(variable),
     elem_type |-> IF to_onnx_type(variable.type) = TensorProto_FLOAT /\ float_precision = 16
                   THEN TensorProto_FLOAT16
                   ELSE to_onnx_type(variable.type),
     doc_string |-> IF variable.type.doc_string # "" THEN variable.type.doc_string ELSE ""]

\* the mutant: the entry goes to outputs
add_input_to_outputs(variable) ==
    /\ Size < MaxEntries
    /\ outputs' = Append(outputs, _make_value_info(variable))
    /\ before' = Snapshot
    /\ call' = [NoCall EXCEPT !.op = "add_input", !.variable = variable]
    /\ err' = NoError
    /\ UNCHANGED <<inputs, initializers, value_info, nodes,
                   node_domain_version_pair_sets, float_precision, accepted>>
    /\ UNCHANGED adapter_vars

add_input(variable) ==
    /\ Size < MaxEntries
    /\ inputs' = Append(inputs, _make_value_info(variable))
    /\ before' = Snapshot
    /\ call' = [NoCall EXCEPT !.op = "add_input", !.variable = variable]
    /\ err' = NoError
    /\ UNCHANGED <<outputs, initializers, value_info, nodes,
                   node_domain_version_pair_sets, float_precision, accepted>>
    /\ UNCHANGED adapter_vars

add_output(variable) ==
    /\ Size < MaxEntries
    /\ outputs' = Append(outputs, _make_value_info(variable))
    /\ before' = Snapshot
    /\ call' = [NoCall EXCEPT !.op = "add_output", !.variable = variable]
    /\ err' = NoError
    /\ UNCHANGED <<inputs, initializers, value_info, nodes,
                   node_domain_version_pair_sets, float_precision, accepted>>
    /\ UNCHANGED adapter_vars

add_value_info(variable) ==
    /\ Size < MaxEntries
    /\ value_info' = Append(value_info, _make_value_info(variable))
    /\ before' = Snapshot
    /\ call' = [NoCall EXCEPT !.op = "add_value_info", !.variable = variable]
    /\ err' = NoError
    /\ UNCHANGED <<inputs, outputs, initializers, nodes,
                   node_domain_version_pair_sets, float_precision, accepted>>
    /\ UNCHANGED adapter_vars

\* the mutant: only the first dimension is looked at
first_dim_is_none(shape) == Len(shape) > 0 /\ shape[1].isNone

\* any(d is None for d in shape)
has_none_dim(shape) == \E i \in 1..Len(shape) : shape[i].isNone

\* helper.make_tensor(name, onnx_type, shape, content)
make_tensor(name, onnx_type, shape, content) ==
    [name |-> name, data_type |-> onnx_type,
     dims |-> [i \in 1..Len(shape) |-> shape[i].n], vals |-> content]

\* the element type add_initializer hands to make_tensor
initializer_type(onnx_type) ==
    IF float_precision = 16 /\ onnx_type = TensorProto_FLOAT
    THEN TensorProto_FLOAT16
    ELSE onnx_type

add_initializer(name, onnx_type, shape, content) ==
    /\ Size < MaxEntries
    /\ before' = Snapshot
    /\ call' = [NoCall EXCEPT !.op = "add_initializer", !.name = name,
                              !.onnx_type = onnx_type, !.shape = shape]
    /\ IF has_none_dim(shape)
       THEN /\ err' = ValueError("Shape", <<>>)
            /\ UNCHANGED initializers
       ELSE /\ err' = NoError
            /\ initializers' = Append(initializers,
                   make_tensor(name, initializer_type(onnx_type), shape, content))
    /\ UNCHANGED <<inputs, outputs, value_info, nodes,
                   node_domain_version_pair_sets, float_precision, accepted>>
    /\ UNCHANGED adapter_vars

\* isinstance(v, (six.string_types, six.text_type))
is_string(v) == v.kind = "str"

\* the mutant: a bare string is left as it is
keep_endpoint(v) == v

\* if isinstance(inputs, string): inputs = [inputs]
promote_endpoint(v) == IF is_string(v) THEN List(<<StrElem(v.s)>>) ELSE v

\* isinstance(v, list) and all(isinstance(s, string) for s in v)
is_list_of_string(v) ==
    /\ v.kind = "list"
    /\ \A i \in 1..Len(v.elems) : v.elems[i].ty = "str"

\* whether "for s in v" is defined
is_iterable(v) == v.kind \in {"str", "list", "tuple"}

\* ','.join(list(str(type(s)) for s in v))
type_list(v) == [i \in 1..Len(v.elems) |-> v.elems[i].ty]

\* what the body of "if not isinstance(v, list) or not all(...)" raises:
\* building type_list iterates v, which is a TypeError for a non-iterable.
endpoint_error(what, v) ==
    IF is_iterable(v)
    THEN ValueError(what, type_list(v))
    ELSE TypeError(what, <<v.kind>>)

\* the mutant: only the first item is looked at
undefined_first_attr(attrs) == {i \in 1..Len(attrs) : i = 1 /\ attrs[i].isNone}

\* for k, v in attrs.items(): if v is None: raise ...
\* attrs is the sequence of items in the dict's iteration order.
undefined_attrs(attrs) == {i \in 1..Len(attrs) : attrs[i].isNone}

first_undefined_attr(attrs) ==
    CHOOSE i \in undefined_attrs(attrs) : \A j \in undefined_attrs(attrs) : i <= j

\* the validation of add_node, in the order of the code
add_node_error(inputs_, outputs_, attrs) ==
    IF ~is_list_of_string(promote_endpoint(inputs_))
    THEN endpoint_error("Inputs", promote_endpoint(inputs_))
    ELSE IF ~is_list_of_string(promote_endpoint(outputs_))
    THEN endpoint_error("Outputs", promote_endpoint(outputs_))
    ELSE IF undefined_attrs(attrs) # {}
    THEN ValueError("attribute", <<attrs[first_undefined_attr(attrs)].k>>)
    ELSE NoError

\* helper.make_node(op_type, inputs, outputs, **attrs); node.domain = op_domain
make_node(op_type, inputs_, outputs_, op_domain, attrs) ==
    [op_type |-> op_type,
     input |-> [i \in 1..Len(inputs_.elems) |-> inputs_.elems[i].s],
     output |-> [i \in 1..Len(outputs_.elems) |-> outputs_.elems[i].s],
     domain |-> op_domain,
     attribute |-> [i \in 1..Len(attrs) |-> attrs[i].k]]

\* the mutant: the pair replaces the registry
replace_pair(op_domain, op_version) == {<<op_domain, op_version>>}

\* self.node_domain_version_pair_sets.add((op_domain, op_version))
add_pair(op_domain, op_version) ==
    node_domain_version_pair_sets \cup {<<op_domain, op_version>>}

\* the mutant: the pair is recorded before the arguments are validated
add_node_pair_first(op_type, inputs_, outputs_, op_domain, op_version, attrs) ==
    /\ Size < MaxEntries
    /\ before' = Snapshot
    /\ call' = [NoCall EXCEPT !.op = "add_node", !.name = op_type,
                              !.inputs = inputs_, !.outputs = outputs_,
                              !.op_domain = op_domain, !.op_version = op_version,
                              !.attrs = attrs]
    /\ accepted' = IF add_node_error(inputs_, outputs_, attrs) = NoError
                   THEN accepted \cup {<<op_domain, op_version>>}
                   ELSE accepted
    /\ err' = add_node_error(inputs_, outputs_, attrs)
    /\ node_domain_version_pair_sets' = add_pair(op_domain, op_version)
    /\ IF add_node_error(inputs_, outputs_, attrs) = NoError
       THEN nodes' = Append(nodes, make_node(op_type, promote_endpoint(inputs_),
                                             promote_endpoint(outputs_), op_domain, attrs))
       ELSE UNCHANGED nodes
    /\ UNCHANGED <<inputs, outputs, initializers, value_info, float_precision>>
    /\ UNCHANGED adapter_vars

add_node(op_type, inputs_, outputs_, op_domain, op_version, attrs) ==
    /\ Size < MaxEntries
    /\ before' = Snapshot
    /\ call' = [NoCall EXCEPT !.op = "add_node", !.name = op_type,
                              !.inputs = inputs_, !.outputs = outputs_,
                              !.op_domain = op_domain, !.op_version = op_version,
                              !.attrs = attrs]
    /\ accepted' = IF add_node_error(inputs_, outputs_, attrs) = NoError
                   THEN accepted \cup {<<op_domain, op_version>>}
                   ELSE accepted
    /\ err' = add_node_error(inputs_, outputs_, attrs)
    /\ IF add_node_error(inputs_, outputs_, attrs) = NoError
       THEN /\ nodes' = Append(nodes, make_node(op_type, promote_endpoint(inputs_),
                                                promote_endpoint(outputs_), op_domain, attrs))
            /\ node_domain_version_pair_sets' = add_pair(op_domain, op_version)
       ELSE UNCHANGED <<nodes, node_domain_version_pair_sets>>
    /\ UNCHANGED <<inputs, outputs, initializers, value_info, float_precision>>
    /\ UNCHANGED adapter_vars

\* ----- the arguments the driver passes ------------------------------------
ElementTypes == {TensorProto_FLOAT, TensorProto_INT64, TensorProto_FLOAT16}
Shapes == { <<Dim(3), Dim(1)>>, <<Dim(2), NoneDim, Dim(3)>> }
Content == <<1, 2, 3>>
Endpoints ==
    { Str("t1"), List(<<StrElem("t1")>>), List(<<StrElem("t1"), StrElem("t2")>>),
      List(<<StrElem("t1"), IntElem>>), Tuple(<<StrElem("t1")>>), IntValue, NoneValue }
OutputEndpoints == { Str("Y"), List(<<StrElem("Y")>>), List(<<IntElem>>) }
DomainVersions == { <<"", 1>>, <<"ai.onnx.ml", 1>> }
AttrDicts ==
    { <<>>, <<Attr("alpha", FALSE)>>,
      <<Attr("alpha", FALSE), Attr("beta", TRUE), Attr("gamma", TRUE)>> }

\* ----- KerasModelContainer / SklearnModelContainer -----------------------
Names == {"a", "b", "x"}

NoRead == [accessor |-> "", value |-> <<>>, count |-> 0]

\* __init__ of both adapters: empty lists
AdapterInit ==
    /\ keras_input_raw_names = <<>>
    /\ keras_output_raw_names = <<>>
    /\ sklearn_inputs = <<>>
    /\ sklearn_outputs = <<>>
    /\ registered = [keras_in |-> <<>>, keras_out |-> <<>>,
                     sklearn_in |-> <<>>, sklearn_out |-> <<>>]
    /\ names_read = NoRead

Registrations ==
    Len(registered.keras_in) + Len(registered.keras_out)
    + Len(registered.sklearn_in) + Len(registered.sklearn_out)

\* "x in list": some element equals x
contains(list, x) == \E i \in 1..Len(list) : list[i] = x

\* the mutant: the name is appended whether present or not
keras_add_input_name_always(name) ==
    /\ Registrations < MaxRegistrations
    /\ keras_input_raw_names' = Append(keras_input_raw_names, name)
    /\ registered' = [registered EXCEPT !.keras_in = Append(@, name)]
    /\ names_read' = NoRead
    /\ UNCHANGED <<keras_output_raw_names, sklearn_inputs, sklearn_outputs>>
    /\ UNCHANGED container_vars

\* KerasModelContainer.add_input_name
keras_add_input_name(name) ==
    /\ Registrations < MaxRegistrations
    /\ keras_input_raw_names' =
           IF ~contains(keras_input_raw_names, name)
           THEN Append(keras_input_raw_names, name)
           ELSE keras_input_raw_names
    /\ registered' = [registered EXCEPT !.keras_in = Append(@, name)]
    /\ names_read' = NoRead
    /\ UNCHANGED <<keras_output_raw_names, sklearn_inputs, sklearn_outputs>>
    /\ UNCHANGED container_vars

\* KerasModelContainer.add_output_name
keras_add_output_name(name) ==
    /\ Registrations < MaxRegistrations
    /\ keras_output_raw_names' =
           IF ~contains(keras_output_raw_names, name)
           THEN Append(keras_output_raw_names, name)
           ELSE keras_output_raw_names
    /\ registered' = [registered EXCEPT !.keras_out = Append(@, name)]
    /\ names_read' = NoRead
    /\ UNCHANGED <<keras_input_raw_names, sklearn_inputs, sklearn_outputs>>
    /\ UNCHANGED container_vars

\* KerasModelContainer.input_names: [name for name in self._input_raw_names]
keras_input_names == [i \in 1..Len(keras_input_raw_names) |-> keras_input_raw_names[i]]

\* KerasModelContainer.output_names
keras_output_names == [i \in 1..Len(keras_output_raw_names) |-> keras_output_raw_names[i]]

\* the mutant: only the variable registered last is compared
sklearn_add_input_last_only(variable) ==
    /\ Registrations < MaxRegistrations
    /\ sklearn_inputs' =
           IF sklearn_inputs = <<>> \/ sklearn_inputs[Len(sklearn_inputs)] # variable
           THEN Append(sklearn_inputs, variable)
           ELSE sklearn_inputs
    /\ registered' = [registered EXCEPT !.sklearn_in = Append(@, variable)]
    /\ names_read' = NoRead
    /\ UNCHANGED <<keras_input_raw_names, keras_output_raw_names, sklearn_outputs>>
    /\ UNCHANGED container_vars

\* SklearnModelContainer.add_input
sklearn_add_input(variable) ==
    /\ Registrations < MaxRegistrations
    /\ sklearn_inputs' =
           IF ~contains(sklearn_inputs, variable)
           THEN Append(sklearn_inputs, variable)
           ELSE sklearn_inputs
    /\ registered' = [registered EXCEPT !.sklearn_in = Append(@, variable)]
    /\ names_read' = NoRead
    /\ UNCHANGED <<keras_input_raw_names, keras_output_raw_names, sklearn_outputs>>
    /\ UNCHANGED container_vars

\* SklearnModelContainer.add_output
sklearn_add_output(variable) ==
    /\ Registrations < MaxRegistrations
    /\ sklearn_outputs' =
           IF ~contains(sklearn_outputs, variable)
           THEN Append(sklearn_outputs, variable)
           ELSE sklearn_outputs
    /\ registered' = [registered EXCEPT !.sklearn_out = Append(@, variable)]
    /\ names_read' = NoRead
    /\ UNCHANGED <<keras_input_raw_names, keras_output_raw_names, sklearn_inputs>>
    /\ UNCHANGED container_vars

\* SklearnModelContainer.input_names: [variable.raw_name for variable in self._inputs]
sklearn_input_names == [i \in 1..Len(sklearn_inputs) |-> sklearn_inputs[i].raw_name]

\* SklearnModelContainer.output_names
sklearn_output_names == [i \in 1..Len(sklearn_outputs) |-> sklearn_outputs[i].raw_name]

\* A read of one of the four accessors; count: consecutive reads of the same
\* accessor with no registration in between.
accessor_value(accessor) ==
    CASE accessor = "keras.input_names" -> keras_input_names
      [] accessor = "keras.output_names" -> keras_output_names
      [] accessor = "sklearn.input_names" -> sklearn_input_names
      [] accessor = "sklearn.output_names" -> sklearn_output_names

Accessors == {"keras.input_names", "keras.output_names",
              "sklearn.input_names", "sklearn.output_names"}

read_names(accessor) ==
    /\ names_read.accessor = accessor => names_read.count < MaxReads
    /\ names_read' = [accessor |-> accessor, value |-> accessor_value(accessor),
                      count |-> IF names_read.accessor = accessor
                                THEN names_read.count + 1 ELSE 1]
    /\ UNCHANGED <<keras_input_raw_names, keras_output_raw_names,
                   sklearn_inputs, sklearn_outputs, registered>>
    /\ UNCHANGED container_vars

\* ----- specifications -----------------------------------------------------
Init == ContainerInit /\ AdapterInit

\* the calls a conversion driver makes on one ModelComponentContainer
Next ==
    \/ \E variable \in Variables : add_input(variable)
    \/ \E variable \in Variables : add_output(variable)
    \/ \E variable \in Variables : add_value_info(variable)
    \/ \E onnx_type \in ElementTypes, shape \in Shapes :
          add_initializer("W", onnx_type, shape, Content)
    \/ \E inputs_ \in Endpoints, outputs_ \in OutputEndpoints,
          dv \in DomainVersions, attrs \in AttrDicts :
          add_node("MatMul", inputs_, outputs_, dv[1], dv[2], attrs)

Spec == Init /\ [][Next]_vars

\* the calls a parser makes on the accumulating adapters
AdapterNext ==
    \/ \E name \in Names : keras_add_input_name(name)
    \/ \E name \in Names : keras_add_output_name(name)
    \/ \E variable \in Variables : sklearn_add_input(variable)
    \/ \E variable \in Variables : sklearn_add_output(variable)
    \/ \E accessor \in Accessors : read_names(accessor)

AdapterSpec == Init /\ [][AdapterNext]_vars

\* ----- what the claims speak of -------------------------------------------
Last(list) == list[Len(list)]

IsAppend(list, old) ==
    /\ Len(list) = Len(old) + 1
    /\ SubSeq(list, 1, Len(old)) = old

IsPrefix(old, list) ==
    /\ Len(old) <= Len(list)
    /\ SubSeq(list, 1, Len(old)) = old

AllStrings(v) == \A i \in 1..Len(v.elems) : v.elems[i].ty = "str"

\* a string, or a sequence (list or tuple) of strings
StringOrSequenceOfStrings(v) ==
    \/ v.kind = "str"
    \/ v.kind \in {"list", "tuple"} /\ AllStrings(v)

\* a string, or a list of strings
StringOrListOfStrings(v) ==
    \/ v.kind = "str"
    \/ v.kind = "list" /\ AllStrings(v)

\* the types a message can name as offending: the type of an element that is
\* no string, or of the value itself when it is no sequence
OffendingTypes(v) ==
    IF v.kind \in {"list", "tuple"}
    THEN {v.elems[i].ty : i \in {j \in 1..Len(v.elems) : v.elems[j].ty # "str"}}
    ELSE {v.kind}

NamesOffendingType(e, v) ==
    \E i \in 1..Len(e.detail) : e.detail[i] \in OffendingTypes(v)

IsEndpointError(e, what, v) ==
    /\ e.exc = "ValueError"
    /\ e.what = what
    /\ NamesOffendingType(e, v)

\* C1: add_node fails with the 'malformed node endpoint' ValueError, naming
\* the offending type, for every inputs or outputs value that is neither a
\* string nor a sequence of strings, and accepts every string and every
\* sequence of strings, a tuple of strings included.
C1_MalformedEndpointRejected ==
    call.op = "add_node" =>
        /\ ~StringOrSequenceOfStrings(call.inputs)
              => IsEndpointError(err, "Inputs", call.inputs)
        /\ StringOrSequenceOfStrings(call.inputs)
              => err.what # "Inputs"
        /\ StringOrSequenceOfStrings(call.inputs)
           /\ ~StringOrSequenceOfStrings(call.outputs)
              => IsEndpointError(err, "Outputs", call.outputs)
        /\ StringOrSequenceOfStrings(call.outputs)
              => err.what # "Outputs"

\* C2 as stated: the registry is the union of every pair ever passed to
\* add_node: a pair is in the registry once the call it was passed to is over
\* (and stays, the registry being the union).
C2_Original ==
    /\ accepted \subseteq node_domain_version_pair_sets
    /\ call.op = "add_node"
          => <<call.op_domain, call.op_version>> \in node_domain_version_pair_sets

\* C2 as amended: the registry is the union of the pairs passed to the
\* add_node calls that returned, whatever their order and number, and it has
\* every pair it had before the last call.
C2_RegistryIsUnionOfAccepted ==
    /\ node_domain_version_pair_sets = accepted
    /\ before.node_domain_version_pair_sets \subseteq node_domain_version_pair_sets
    /\ call.op = "add_node" /\ err = NoError
          => node_domain_version_pair_sets =
                 before.node_domain_version_pair_sets
                     \cup {<<call.op_domain, call.op_version>>}
    /\ call.op = "add_node" /\ err # NoError
          => node_domain_version_pair_sets = before.node_domain_version_pair_sets

\* a node of the default domain was added after one of "ai.onnx.ml"
C2_Witness ==
    /\ Len(nodes) = 2
    /\ nodes[1].domain = "ai.onnx.ml"
    /\ call.op = "add_node"
    /\ call.op_domain = ""
    /\ node_domain_version_pair_sets = {<<"ai.onnx.ml", 1>>, <<"", 1>>}

HasNoneAttr(attrs) == \E i \in 1..Len(attrs) : attrs[i].isNone

IsInvalidAttribute(e, attrs) ==
    /\ e.exc = "ValueError"
    /\ e.what = "attribute"
    /\ \E i \in 1..Len(attrs) : attrs[i].isNone /\ e.detail = <<attrs[i].k>>

\* C3 as stated: add_node with an attribute whose value is None raises the
\* 'invalid attribute' error naming the key of such an attribute and appends
\* no node, whatever the other arguments are.
C3_Original ==
    call.op = "add_node" /\ HasNoneAttr(call.attrs) =>
        /\ IsInvalidAttribute(err, call.attrs)
        /\ nodes = before.nodes

\* C3 as amended: add_node with an attribute whose value is None appends no
\* node whatever the other arguments are, and when inputs and outputs are each
\* a string or a list of strings it raises the 'invalid attribute' error, which
\* names the key of the first attribute whose value is None.
C3_NoneAttributeRejected ==
    call.op = "add_node" /\ HasNoneAttr(call.attrs) =>
        /\ nodes = before.nodes
        /\ err # NoError
        /\ StringOrListOfStrings(call.inputs) /\ StringOrListOfStrings(call.outputs)
              => /\ IsInvalidAttribute(err, call.attrs)
                 /\ \A i \in 1..Len(call.attrs) :
                        call.attrs[i].isNone /\ err.detail = <<call.attrs[i].k>>
                            => \A j \in 1..(i - 1) : ~call.attrs[j].isNone

C3_Witness ==
    /\ call.op = "add_node"
    /\ call.inputs = Str("t1")
    /\ call.outputs = List(<<StrElem("Y")>>)
    /\ err = ValueError("attribute", <<"beta">>)
    /\ Len(nodes) = 1

\* C4: add_initializer with a shape in which some dimension is None raises
\* the 'malformed shape' error and leaves initializers unchanged, in either
\* precision mode and for any element type; with a shape of integers the call
\* appends exactly one initializer.
C4_NoneShapeRejected ==
    call.op = "add_initializer" =>
        IF \E i \in 1..Len(call.shape) : call.shape[i] = NoneDim
        THEN /\ err = ValueError("Shape", <<>>)
             /\ initializers = before.initializers
        ELSE /\ err = NoError
             /\ IsAppend(initializers, before.initializers)
             /\ Last(initializers).name = call.name
             /\ Last(initializers).dims = [i \in 1..Len(call.shape) |-> call.shape[i].n]

C4_Witness ==
    /\ call.op = "add_initializer"
    /\ call.shape = <<Dim(2), NoneDim, Dim(3)>>
    /\ call.onnx_type = TensorProto_INT64
    /\ float_precision = 16
    /\ err.exc = "ValueError"
    /\ Len(initializers) = 1

\* the element type declared in the last call and the one recorded for it
Declared ==
    IF call.op = "add_initializer" THEN call.onnx_type
    ELSE to_onnx_type(call.variable.type)

Recorded ==
    CASE call.op = "add_input" -> Last(inputs).elem_type
      [] call.op = "add_output" -> Last(outputs).elem_type
      [] call.op = "add_value_info" -> Last(value_info).elem_type
      [] call.op = "add_initializer" -> Last(initializers).data_type

Records ==
    /\ call.op \in {"add_input", "add_output", "add_value_info", "add_initializer"}
    /\ err = NoError

\* C5 as stated: the recorded element type is the 16-bit float tag exactly
\* when the precision mode is 16 and the declared type is the 32-bit float,
\* and equals the declared type in every other case.
C5_Original ==
    Records =>
        /\ Recorded = TensorProto_FLOAT16
              <=> (float_precision = 16 /\ Declared = TensorProto_FLOAT)
        /\ ~(float_precision = 16 /\ Declared = TensorProto_FLOAT)
              => Recorded = Declared

\* C5 as amended: the recorded element type is the 16-bit float tag when the
\* precision mode is 16 and the declared type is the 32-bit float, and equals
\* the declared type in every other case (a declared 16-bit float is recorded
\* as such in either mode).
C5_PrecisionSubstitution ==
    Records =>
        Recorded = IF float_precision = 16 /\ Declared = TensorProto_FLOAT
                   THEN TensorProto_FLOAT16
                   ELSE Declared

C5_Witness ==
    /\ float_precision = 16
    /\ call.op = "add_value_info"
    /\ Len(value_info) = 2
    /\ value_info[1].elem_type = TensorProto_FLOAT16
    /\ value_info[2].elem_type = TensorProto_INT64

\* the distinct elements of a log, in the order of their first occurrence
Distinct(log) ==
    LET D[i \in 0..Len(log)] ==
            IF i = 0 THEN <<>>
            ELSE IF \E j \in 1..(i - 1) : log[j] = log[i]
                 THEN D[i - 1]
                 ELSE Append(D[i - 1], log[i])
    IN D[Len(log)]

RawNames(variables) == [i \in 1..Len(variables) |-> variables[i].raw_name]

\* C6: input_names (output_names) of the Keras adapter is the sequence of the
\* distinct names registered by add_input_name (add_output_name), in the order
\* of first registration, and every read of the accessor returns that list,
\* a repeated read included.
C6_KerasNamesAreDistinctInOrder ==
    /\ keras_input_names = Distinct(registered.keras_in)
    /\ keras_output_names = Distinct(registered.keras_out)
    /\ names_read.accessor = "keras.input_names"
          => names_read.value = Distinct(registered.keras_in)
    /\ names_read.accessor = "keras.output_names"
          => names_read.value = Distinct(registered.keras_out)

\* "b", "a", "b" were registered and input_names was read twice
C6_Witness ==
    /\ registered.keras_in = <<"b", "a", "b">>
    /\ names_read = [accessor |-> "keras.input_names", value |-> <<"b", "a">>,
                     count |-> 2]

\* C7: a variable registered again by add_input (add_output) of the sklearn
\* adapter changes nothing, and input_names (output_names) has the name of
\* each registered variable once, in the order of first registration, as the
\* name adapter has for the registered names.
C7_SklearnNamesAreDistinctInOrder ==
    /\ sklearn_inputs = Distinct(registered.sklearn_in)
    /\ sklearn_outputs = Distinct(registered.sklearn_out)
    /\ sklearn_input_names = Distinct(RawNames(registered.sklearn_in))
    /\ sklearn_output_names = Distinct(RawNames(registered.sklearn_out))
    /\ names_read.accessor = "sklearn.input_names"
          => names_read.value = Distinct(RawNames(registered.sklearn_in))
    /\ names_read.accessor = "sklearn.output_names"
          => names_read.value = Distinct(RawNames(registered.sklearn_out))

\* the variables named "b", "a", "b" were registered and input_names was read
C7_Witness ==
    /\ RawNames(registered.sklearn_in) = <<"b", "a", "b">>
    /\ names_read.accessor = "sklearn.input_names"
    /\ names_read.value = <<"b", "a">>

\* a bare string s, or the list [s]
IsOneName(v) ==
    \/ v.kind = "str"
    \/ v.kind = "list" /\ Len(v.elems) = 1 /\ v.elems[1].ty = "str"

TheName(v) == IF v.kind = "str" THEN v.s ELSE v.elems[1].s

\* C8: add_node with inputs (outputs) given as a bare string s does what the
\* same call with [s] does: the call ends the same way, and the node it
\* appends has the one input (output) s; the rest of the container is as the
\* call with [s] leaves it.
C8_BareStringIsOneElementList ==
    call.op = "add_node" /\ IsOneName(call.inputs) /\ IsOneName(call.outputs) =>
        IF HasNoneAttr(call.attrs)
        THEN /\ err.exc = "ValueError" /\ err.what = "attribute"
             /\ Snapshot = before
        ELSE /\ err = NoError
             /\ IsAppend(nodes, before.nodes)
             /\ Last(nodes).op_type = call.name
             /\ Last(nodes).input = <<TheName(call.inputs)>>
             /\ Last(nodes).output = <<TheName(call.outputs)>>
             /\ Last(nodes).domain = call.op_domain
             /\ node_domain_version_pair_sets =
                    before.node_domain_version_pair_sets
                        \cup {<<call.op_domain, call.op_version>>}
             /\ [Snapshot EXCEPT !.nodes = before.nodes,
                                 !.node_domain_version_pair_sets =
                                     before.node_domain_version_pair_sets] = before

C8_Witness ==
    /\ call.op = "add_node"
    /\ call.inputs = Str("t1")
    /\ call.outputs = Str("Y")
    /\ err = NoError
    /\ Len(nodes) = 2
    /\ nodes[2].input = <<"t1">>
    /\ nodes[2].output = <<"Y">>

\* the collection a call appends to
OwnCollection(op) ==
    CASE op = "add_input" -> "inputs"
      [] op = "add_output" -> "outputs"
      [] op = "add_value_info" -> "value_info"
      [] op = "add_initializer" -> "initializers"
      [] op = "add_node" -> "nodes"

Collections == {"inputs", "outputs", "value_info", "initializers", "nodes"}

Collection(snapshot, c) ==
    CASE c = "inputs" -> snapshot.inputs
      [] c = "outputs" -> snapshot.outputs
      [] c = "value_info" -> snapshot.value_info
      [] c = "initializers" -> snapshot.initializers
      [] c = "nodes" -> snapshot.nodes

\* C9: a call that returns appends exactly one entry at the end of its own
\* collection, whether or not an entry of that name is there, and leaves the
\* other four collections and the precision mode as they were; the registry
\* changes in add_node alone; no call removes, replaces or reorders entries.
C9_AppendOnly ==
    /\ \A c \in Collections : IsPrefix(Collection(before, c), Collection(Snapshot, c))
    /\ before.node_domain_version_pair_sets \subseteq node_domain_version_pair_sets
    /\ float_precision = before.float_precision
    /\ call.op # "" /\ err = NoError =>
          /\ IsAppend(Collection(Snapshot, OwnCollection(call.op)),
                      Collection(before, OwnCollection(call.op)))
          /\ \A c \in Collections \ {OwnCollection(call.op)} :
                 Collection(Snapshot, c) = Collection(before, c)
          /\ call.op \in {"add_input", "add_output", "add_value_info"}
                => Last(Collection(Snapshot, OwnCollection(call.op))).name
                       = call.variable.onnx_name
    /\ call.op # "add_node"
          => node_domain_version_pair_sets = before.node_domain_version_pair_sets

\* the same variable was added to inputs twice
C9_Witness ==
    /\ call.op = "add_input"
    /\ Len(inputs) = 2
    /\ inputs[1].name = inputs[2].name

\* C10: a call of add_node or add_initializer that raises leaves the five
\* collections and the registry as they were; so the registry is non-empty
\* only if nodes is, and the domain of every pair in it is the domain of a node.
C10_FailureAtomicity ==
    /\ err # NoError => Snapshot = before
    /\ node_domain_version_pair_sets # {} => nodes # <<>>
    /\ \A dv \in node_domain_version_pair_sets :
           \E i \in 1..Len(nodes) : nodes[i].domain = dv[1]

\* add_node was rejected with a pair the registry, which is not empty, lacks
C10_Witness ==
    /\ call.op = "add_node"
    /\ err # NoError
    /\ nodes # <<>>
    /\ <<call.op_domain, call.op_version>> \notin node_domain_version_pair_sets

====
